---- MODULE Spec2Model ----
(***************************************************************************)
(* movable-ref: offset-based (relative) pointers.                          *)
(*                                                                         *)
(* The model has these parts.                                              *)
(*   - The Offset implementations of src/src/offset/integers.rs as pure    *)
(*     operators (sub, sub_unchecked, add) over machine integers of a      *)
(*     scaled width, exercised by the specification SpecOffset.            *)
(*   - SelfRef (src/src/pointer/self_ref.rs) embedded in a container that  *)
(*     is moved around the address space, exercised by Spec.               *)
(*   - SelfRefCell (src/src/combinators/self_ref_cell.rs), exercised by    *)
(*     SpecCell.                                                           *)
(*   - Two containers whose contents are exchanged, exercised by SpecSwap. *)
(*   - A container read through every accessor, the base-relative ones     *)
(*     included, in builds with and without debug assertions, exercised by *)
(*     SpecOwner.                                                          *)
(*                                                                         *)
(* Addresses are PtrBits wide.  The integer types keep the order of their  *)
(* widths on a 64-bit target (i8 < i16 < i32 < i64 = isize < i128), each   *)
(* scaled relative to PtrBits, so that every comparison of                 *)
(* size_of::<Self>() with size_of::<isize>() has the outcome it has in the *)
(* source and every overflow happens at the scaled boundary.               *)
(***************************************************************************)
EXTENDS Integers, Sequences, FiniteSets, TLC

\* Width of usize / isize / a pointer, in bits (scaled).
PtrBits == 5

Pow2(n) == 2 ^ n

\* usize::MAX + 1
USIZE == Pow2(PtrBits)

\* All values of usize: every address, 0 being the null address.
Addr == 0 .. (USIZE - 1)

----------------------------------------------------------------------------
(* Integer types implementing Offset *)

Zeroable == {"i8", "i16", "i32", "i64", "i128", "isize"}

NonZeroTypes ==
    {"NonZeroI8", "NonZeroI16", "NonZeroI32", "NonZeroI64", "NonZeroI128", "NonZeroIsize"}

OffsetTypes == Zeroable \cup NonZeroTypes

\* $base of impl_delta_nonzero!; a zeroable type is its own base.
BaseOf(t) ==
    CASE t = "NonZeroI8" -> "i8"
      [] t = "NonZeroI16" -> "i16"
      [] t = "NonZeroI32" -> "i32"
      [] t = "NonZeroI64" -> "i64"
      [] t = "NonZeroI128" -> "i128"
      [] t = "NonZeroIsize" -> "isize"
      [] OTHER -> t

\* std::mem::size_of::<Self>() in bits, scaled to PtrBits.
size_of(t) ==
    CASE BaseOf(t) = "i8" -> PtrBits - 3
      [] BaseOf(t) = "i16" -> PtrBits - 2
      [] BaseOf(t) = "i32" -> PtrBits - 1
      [] BaseOf(t) = "i64" -> PtrBits
      [] BaseOf(t) = "isize" -> PtrBits
      [] BaseOf(t) = "i128" -> PtrBits + 1

min_value(t) == 0 - Pow2(size_of(t) - 1)

max_value(t) == Pow2(size_of(t) - 1) - 1

\* Two's-complement reinterpretation of an integer in `bits` bits: the
\* result of an `as` cast to a signed type of that width.
WrapSigned(x, bits) ==
    LET m == x % Pow2(bits)
    IN  IF m >= Pow2(bits - 1) THEN m - Pow2(bits) ELSE m

\* `p as usize as isize`
AsIsize(p) == WrapSigned(p, PtrBits)

\* a.wrapping_sub(b) as isize
TrueDistanceOf(a, b) == WrapSigned(a - b, PtrBits)

\* Option / Result values
None == [some |-> FALSE, v |-> 0]

Some(x) == [some |-> TRUE, v |-> x]

Ok(d) == [tag |-> "Ok", val |-> d, err |-> "None", args |-> <<>>]

Err(kind, payload) == [tag |-> "Err", val |-> 0, err |-> kind, args |-> payload]

\* isize::checked_sub
checked_sub(x, y) ==
    IF x - y < 0 - Pow2(PtrBits - 1) \/ x - y > Pow2(PtrBits - 1) - 1
    THEN None
    ELSE Some(x - y)

\* `del as _` : cast of an isize to the offset type
CastTo(t, del) == WrapSigned(del, size_of(t))

\* The range check left out: every distance is narrowed unchecked.
OutOfRange_unchecked(t, del) == FALSE

\* The range check of sub: true when del does not fit the narrower type.
OutOfRange(t, del) ==
    size_of(t) < PtrBits /\ (min_value(t) > del \/ max_value(t) < del)

\* impl_delta_zeroable!: sub
sub_zeroable(t, a, b) ==
    LET del == checked_sub(AsIsize(a), AsIsize(b))
    IN  IF ~del.some THEN Err("Sub", <<a, b>>)
        ELSE IF OutOfRange(t, del.v) THEN Err("Conversion", <<del.v>>)
        ELSE Ok(CastTo(t, del.v))

\* The `Some(0)` arm left out: a zero distance is narrowed like any other.
sub_nonzero_no_zero_arm(t, a, b) ==
    LET del == checked_sub(AsIsize(a), AsIsize(b))
    IN  IF ~del.some THEN Err("Sub", <<a, b>>)
        ELSE IF OutOfRange(t, del.v) THEN Err("Conversion", <<del.v>>)
        ELSE Ok(CastTo(t, del.v))

\* impl_delta_nonzero!: sub
sub_nonzero(t, a, b) ==
    LET del == checked_sub(AsIsize(a), AsIsize(b))
    IN  IF ~del.some THEN Err("Sub", <<a, b>>)
        ELSE IF del.v = 0 THEN Err("InvalidNonZero", <<>>)
        ELSE IF OutOfRange(t, del.v) THEN Err("Conversion", <<del.v>>)
        ELSE Ok(CastTo(t, del.v))

\* The distance taken from address 0 instead of from b.
sub_from_zero(t, a, b) == sub_zeroable(t, a, 0)

\* Offset::sub
sub(t, a, b) == IF t \in NonZeroTypes THEN sub_nonzero(t, a, b) ELSE sub_zeroable(t, a, b)

\* add stepping against the sign of the offset.
add_subtracts(t, d, a) == (a - WrapSigned(d, PtrBits)) % USIZE

\* Offset::add : `<*const u8>::offset(a, self as isize)`.  The address
\* arithmetic is that of the machine: modulo 2^PtrBits.
add(t, d, a) == (a + WrapSigned(d, PtrBits)) % USIZE

\* A sentinel other than the zero offset.
NULL_minus_one == 0 - 1

\* Nullable::NULL
NULL == 0

----------------------------------------------------------------------------
(* PointerRecomposition and SelfRef, as functions of the pointer's fields *)

\* Size in bytes of the container that embeds the SelfRef and its target.
ContainerSize == 4

\* The content of MaybeUninit::uninit().
UNINIT == 0 - 1

\* Ptr<T> = Option<NonNull<T>>, T possibly unsized: address and metadata.
NonePtr == [some |-> FALSE, addr |-> 0, meta |-> 0]

SomePtr(a, m) == [some |-> TRUE, addr |-> a, meta |-> m]

\* NonNull::new
NonNull_new(a) == IF a = 0 THEN None ELSE Some(a)

\* nn_to_ptr: Option<NonNull<T>> and *mut T have the same representation.
nn_to_ptr(nn) == [addr |-> nn.addr, meta |-> nn.meta]

\* decompose that reports no elements.
decompose_empty(k, n) == 0

\* PointerRecomposition::decompose: () for a sized target, len() for [T] and str.
\* n is the length of the value referred to.
decompose(k, n) == IF k = "slice" THEN n ELSE 0

\* PointerRecomposition::recompose
recompose(k, p, data) ==
    IF ~p.some THEN NonePtr
    ELSE IF k = "slice" THEN SomePtr(p.v, data)
    ELSE SomePtr(p.v, 0)

\* What an accessor hands back: a panic, or a (possibly null) pointer.
Panicked == [panic |-> TRUE, some |-> FALSE, addr |-> 0, meta |-> 0]

Returned(q) == [panic |-> FALSE, some |-> q.addr # 0, addr |-> q.addr, meta |-> q.meta]

\* guard_payload_from without the debug-guards feature, and guard_payload_empty
guard_payload_empty == [some |-> FALSE, addr |-> 0, meta |-> 0]

\* SelfRef::null
null == [off |-> NULL, comp |-> UNINIT, st |-> "Unset", guard |-> guard_payload_empty]

\* from_parts that forgets the components.
from_parts_without_components(o, c) ==
    [off |-> o, comp |-> 0, st |-> "Ready", guard |-> guard_payload_empty]

\* SelfRef::from_parts
from_parts(o, c) == [off |-> o, comp |-> c, st |-> "Ready", guard |-> guard_payload_empty]

\* guard_payload_from: the target is kept only when the crate is built
\* with the debug-guards feature.
guard_payload_from(feature, target) == IF feature THEN target ELSE NonePtr

\* SelfRef::from_parts_with_target; `feature` is whether the crate is built
\* with debug-guards, target a Ptr<T>.
from_parts_with_target(feature, o, c, target) ==
    [off |-> o, comp |-> c, st |-> "Ready", guard |-> guard_payload_from(feature, target)]

\* guard_assert_target, applied to the outcomes of the access it guards:
\* when a target was recorded and differs from the recomputed one, a build
\* with debug assertions panics and a build without them goes on.
guard_assert_target(payload, target, outcomes) ==
    IF payload.some /\ payload.addr # target THEN outcomes \cup {Panicked} ELSE outcomes

\* SelfRef::is_null
is_null(p) == p.off = NULL

\* SelfRef::is_ready
is_ready(p) == p.st = "Ready"

\* SelfRef::components_if_ready
components_if_ready(p) == IF p.st = "Ready" THEN Some(p.comp) ELSE None

\* SelfRef::offset
offset(p) == p.off

\* SelfRef::parts_if_ready
parts_if_ready(p) ==
    LET c == components_if_ready(p)
    IN  IF c.some THEN [some |-> TRUE, off |-> p.off, comp |-> c.v]
        ELSE [some |-> FALSE, off |-> 0, comp |-> 0]

\* Equality on the offsets alone.
eq_offsets_only(self, other) == self.off = other.off

\* PartialEq for SelfRef: eq
eq(self, other) ==
    LET lhs == components_if_ready(self)
        rhs == components_if_ready(other)
    IN  IF ~lhs.some /\ ~rhs.some THEN TRUE
        ELSE IF lhs.some /\ rhs.some THEN self.off = other.off /\ lhs.v = rhs.v
        ELSE FALSE

\* A copy that comes out unbound.
clone_unset(self) == null

\* Clone::clone / Copy: `*self`
clone(self) == self

\* set with the offset stored before the `?` has looked at the result.
set_stores_first(t, self, selfAddr, valueAddr, n, k) ==
    LET r == sub(t, valueAddr, selfAddr)
    IN  IF r.tag = "Ok"
        THEN [p |-> [off |-> r.val, comp |-> decompose(k, n), st |-> "Ready",
                     guard |-> guard_payload_empty],
              r |-> Ok(0)]
        ELSE [p |-> [self EXCEPT !.off = CastTo(t, TrueDistanceOf(valueAddr, selfAddr))],
              r |-> r]

\* set that clears the state tag when the distance is refused.
set_resets_on_error(t, self, selfAddr, valueAddr, n, k) ==
    LET r == sub(t, valueAddr, selfAddr)
    IN  IF r.tag = "Ok"
        THEN [p |-> [off |-> r.val, comp |-> decompose(k, n), st |-> "Ready",
                     guard |-> guard_payload_empty],
              r |-> Ok(0)]
        ELSE [p |-> [self EXCEPT !.st = "Unset"], r |-> r]

\* set that measures from the target to the pointer.
set_measures_backwards(t, self, selfAddr, valueAddr, n, k) ==
    LET r == sub(t, selfAddr, valueAddr)
    IN  IF r.tag = "Ok"
        THEN [p |-> [off |-> r.val, comp |-> decompose(k, n), st |-> "Ready",
                     guard |-> guard_payload_empty],
              r |-> Ok(0)]
        ELSE [p |-> self, r |-> r]

\* set that leaves the recorded debug target of a Ready pointer in place.
set_keeps_guard(t, self, selfAddr, valueAddr, n, k) ==
    LET r == sub(t, valueAddr, selfAddr)
    IN  IF r.tag = "Ok"
        THEN [p |-> [off |-> r.val, comp |-> decompose(k, n), st |-> "Ready",
                     guard |-> self.guard],
              r |-> Ok(0)]
        ELSE [p |-> self, r |-> r]

\* SelfRef::set.  selfAddr is `self as *mut Self`, valueAddr is
\* `value as *mut T`, n the length of *value; p is the pointer afterwards
\* and r what set returns (Ok(0) standing for Ok(())).
set(t, self, selfAddr, valueAddr, n, k) ==
    LET r == sub(t, valueAddr, selfAddr)
    IN  IF r.tag = "Ok"
        THEN [p |-> [off |-> r.val, comp |-> decompose(k, n), st |-> "Ready",
                     guard |-> guard_payload_empty],
              r |-> Ok(0)]
        ELSE [p |-> self, r |-> r]

\* UncheckedOptionExt::unchecked_unwrap: the value of a Some; on None the
\* behaviour is undefined, and the build either stops there (a checking
\* build panics: None) or goes on with the value `ub` it finds in place.
unchecked_unwrap(opt, ub) == IF opt.some THEN {Some(opt.v)} ELSE {None, Some(ub)}

\* NonZero*::new_unchecked: undefined for 0, and then the build either
\* stops (None) or goes on with a zero in the NonZero.
new_unchecked(x) == IF x = 0 THEN {None, Some(0)} ELSE {Some(x)}

\* Offset::sub_unchecked, as the set of its outcomes: None where the call
\* panics, Some(d) where it returns d.
sub_unchecked(t, a, b) ==
    LET del == unchecked_unwrap(checked_sub(AsIsize(a), AsIsize(b)),
                                TrueDistanceOf(a, b))
        narrowed == {IF d.some THEN Some(CastTo(t, d.v)) ELSE None : d \in del}
    IN  IF t \in NonZeroTypes
        THEN UNION {IF d.some THEN new_unchecked(d.v) ELSE {None} : d \in narrowed}
        ELSE narrowed

\* SelfRef::set_unchecked, as the set of pointers it can leave behind; ok
\* is FALSE where the call panicked before storing anything.
set_unchecked(t, self, selfAddr, valueAddr, n, k) ==
    {IF d.some
        THEN [p |-> [off |-> d.v, comp |-> decompose(k, n), st |-> "Ready",
                     guard |-> guard_payload_empty],
              ok |-> TRUE]
        ELSE [p |-> self, ok |-> FALSE]
     : d \in sub_unchecked(t, valueAddr, selfAddr)}

\* components_unchecked: MaybeUninit::assume_init_ref.  Reading the
\* components of a pointer that was never bound reads uninitialised memory:
\* any value of T::Components.
components_unchecked(p, k) ==
    IF p.comp # UNINIT THEN {p.comp}
    ELSE IF k = "slice" THEN 0 .. ContainerSize
    ELSE {0}

\* SelfRef::as_raw_unchecked_impl (as_raw_unchecked, as_ref_unchecked and
\* as_mut_unchecked return its result), as the set of its outcomes.
as_raw_unchecked_impl(t, k, self, selfAddr) ==
    {Returned(nn_to_ptr(recompose(k, NonNull_new(add(t, self.off, selfAddr)), c)))
        : c \in components_unchecked(self, k)}

\* debug_assert!(self.is_ready()): a build with debug assertions panics on
\* an unset pointer, a build without them goes on.
debug_assert_ready(self, outcomes) ==
    IF is_ready(self) THEN outcomes ELSE outcomes \cup {Panicked}

\* What a build makes of the outcomes of a call: with debug assertions every
\* debug_assert! that can fail does, without them none is compiled in.
in_build(debug, outcomes) ==
    IF debug THEN (IF Panicked \in outcomes THEN {Panicked} ELSE outcomes)
    ELSE IF outcomes = {Panicked} THEN outcomes
    ELSE outcomes \ {Panicked}

\* SelfRef::as_non_null_unchecked.  The final unchecked_unwrap of a null
\* target is undefined: the build panics or returns the null pointer.
as_non_null_unchecked(t, k, self, selfAddr) ==
    LET target == add(t, self.off, selfAddr)
    IN  guard_assert_target(IF is_ready(self) THEN self.guard ELSE NonePtr, target,
          UNION {
            LET q == recompose(k, NonNull_new(target), c)
            IN  IF q.some THEN {Returned(nn_to_ptr(q))}
                ELSE {Panicked, Returned(nn_to_ptr(q))}
            : c \in components_unchecked(self, k)})

\* SelfRef::as_non_null (as_ref, as_mut and as_raw return its result)
as_non_null_skips_ready(t, k, self, selfAddr) ==
    {Returned(nn_to_ptr(recompose(k, NonNull_new(add(t, self.off, selfAddr)), c)))
        : c \in components_unchecked(self, k)}

as_non_null(t, k, self, selfAddr) ==
    IF ~is_ready(self) THEN {Returned(nn_to_ptr(NonePtr))}
    ELSE LET target == add(t, self.off, selfAddr)
         IN  guard_assert_target(self.guard, target,
               {Returned(nn_to_ptr(recompose(k, NonNull_new(target), c)))
                  : c \in components_unchecked(self, k)})

----------------------------------------------------------------------------
(* Access relative to the owning container, and SelfRefCell                 *)

\* ptr::offset_from and ptr::wrapping_offset
offset_from(p, origin) == WrapSigned(p - origin, PtrBits)

wrapping_offset(p, count) == (p + count) % USIZE

\* The offset applied to the container's address instead of the pointer's.
get_ref_from_base_unchecked_at_base(t, k, self, selfAddr, baseAddr) ==
    {Returned(nn_to_ptr(recompose(k, NonNull_new(add(t, self.off, baseAddr)), c)))
        : c \in components_unchecked(self, k)}

\* SelfRef::get_ref_from_base_unchecked, as the set of its outcomes: the
\* pointer the returned reference is made from.
get_ref_from_base_unchecked(t, k, self, selfAddr, baseAddr) ==
    LET d_self  == offset_from(selfAddr, baseAddr)
        at_self == wrapping_offset(baseAddr, d_self)
        target  == add(t, self.off, at_self)
    IN  debug_assert_ready(self,
          guard_assert_target(IF is_ready(self) THEN self.guard ELSE NonePtr, target,
            {Returned(nn_to_ptr(recompose(k, NonNull_new(target), c)))
                : c \in components_unchecked(self, k)}))

\* SelfRef::get_mut_from_base_unchecked
get_mut_from_base_unchecked(t, k, self, selfAddr, baseAddr) ==
    LET base_ptr == baseAddr
        d_self   == offset_from(selfAddr, base_ptr)
        at_self  == wrapping_offset(base_ptr, d_self)
        target   == add(t, self.off, at_self)
    IN  debug_assert_ready(self,
          guard_assert_target(IF is_ready(self) THEN self.guard ELSE NonePtr, target,
            {Returned(nn_to_ptr(recompose(k, NonNull_new(target), c)))
                : c \in components_unchecked(self, k)}))

\* new that returns the cell whatever set returned.
SelfRefCell_new_ignores_error(t, cellAddr, ptrField, valueField) ==
    [r |-> Ok(0), made |-> TRUE,
     ptr |-> set(t, null, cellAddr + ptrField, cellAddr + valueField, 0, "sized").p]

\* new that fails without having asked set.
SelfRefCell_new_refuses(t, cellAddr, ptrField, valueField) ==
    [r |-> Err("Conversion", <<0>>), made |-> FALSE, ptr |-> null]

\* SelfRefCell::new, for a cell built at cellAddr whose ptr and value fields
\* lie at ptrField and valueField: what it returns (Ok(0) standing for
\* Ok(this)), whether a cell comes out, and the cell's pointer.
SelfRefCell_new(t, cellAddr, ptrField, valueField) ==
    LET this == set(t, null, cellAddr + ptrField, cellAddr + valueField, 0, "sized")
    IN  IF this.r.tag = "Ok"
        THEN [r |-> Ok(0), made |-> TRUE, ptr |-> this.p]
        ELSE [r |-> this.r, made |-> FALSE, ptr |-> null]

\* SelfRefCell::try_get: None, or the reference get_ref_from_base_unchecked
\* makes with the cell's address as base.
try_get(t, self, cellAddr, ptrField) ==
    IF ~is_ready(self) THEN {Returned(nn_to_ptr(NonePtr))}
    ELSE get_ref_from_base_unchecked(t, "sized", self, cellAddr + ptrField, cellAddr)

\* SelfRefCell::try_get_mut
try_get_mut(t, self, cellAddr, ptrField) ==
    IF ~is_ready(self) THEN {Returned(nn_to_ptr(NonePtr))}
    ELSE get_mut_from_base_unchecked(t, "sized", self, cellAddr + ptrField, cellAddr)

\* Option::expect("SelfRefCell accessed before initialisation")
expect(outcomes) == {IF o.some THEN o ELSE Panicked : o \in outcomes}

\* SelfRefCell::get and get_mut
get(t, self, cellAddr, ptrField) == expect(try_get(t, self, cellAddr, ptrField))

get_mut(t, self, cellAddr, ptrField) == expect(try_get_mut(t, self, cellAddr, ptrField))

----------------------------------------------------------------------------
(* State *)

VARIABLES
    oI,     \* SpecOffset: the Offset implementation under test
    oa,     \* SpecOffset: address a
    ob,     \* SpecOffset: address b
    oret,   \* SpecOffset: the last call and what it returned
    I,      \* Spec: offset type of the SelfRef
    Tk,     \* Spec: kind of the target type T ("sized" or "slice")
    base,   \* Spec: address at which the container currently lives
    pOff,   \* Spec: field offset of the SelfRef inside the container
    ptr,    \* Spec: the SelfRef: .0 (off), .1 (comp), .3 (st, guard)
    tgt,    \* Spec: the field the pointer was last bound to, and how
    res,    \* Spec: the last operation and what it returned
    data,   \* SpecCell, SpecSwap: the value the container holds
    cell,   \* SpecCell: the SelfRefCell: whether it exists, its value field
    other,  \* SpecSwap: the second container
    debug_assertions    \* SpecOwner: whether the build has debug assertions

offsetVars == <<oI, oa, ob, oret>>

selfRefVars == <<I, Tk, base, pOff, ptr, tgt, res>>

auxVars == <<data, cell, other, debug_assertions>>

vars == <<oI, oa, ob, oret, I, Tk, base, pOff, ptr, tgt, res, data, cell, other,
          debug_assertions>>

\* The cell and the second container, parked where there is neither.
AuxIdle ==
    /\ data = 0
    /\ cell = [st |-> "none", vOff |-> 0]
    /\ other = [st |-> "none"]
    /\ debug_assertions = FALSE

\* The SelfRef part, parked while the Offset functions are exercised.
SelfRefIdle ==
    /\ I = "isize"
    /\ Tk = "sized"
    /\ base = 1
    /\ pOff = 0
    /\ ptr = [off |-> 0, comp |-> 0 - 1, st |-> "Unset",
              guard |-> [some |-> FALSE, addr |-> 0, meta |-> 0]]
    /\ tgt = [by |-> "none", f |-> 0, n |-> 0, moved |-> FALSE]
    /\ res = [op |-> "none"]
    /\ AuxIdle

\* The Offset part, parked while the SelfRef is exercised.
OffsetIdle ==
    /\ oI = "isize"
    /\ oa = 0
    /\ ob = 0
    /\ oret = [op |-> "none"]

----------------------------------------------------------------------------
(* SpecOffset: the Offset functions applied to every pair of addresses *)

InitOffset ==
    /\ oI \in OffsetTypes
    /\ oa \in Addr
    /\ ob \in Addr
    /\ oret = [op |-> "none"]
    /\ SelfRefIdle

\* I::sub(a, b)
CallSub ==
    /\ oret.op = "none"
    /\ oret' = [op |-> "sub", r |-> sub(oI, oa, ob)]
    /\ UNCHANGED <<oI, oa, ob>>
    /\ UNCHANGED selfRefVars
    /\ UNCHANGED auxVars

\* I::sub(a, b)?.add(b)
CallAdd ==
    /\ oret.op = "sub"
    /\ oret.r.tag = "Ok"
    /\ oret' = [op |-> "add", d |-> oret.r.val, r |-> add(oI, oret.r.val, ob)]
    /\ UNCHANGED <<oI, oa, ob>>
    /\ UNCHANGED selfRefVars
    /\ UNCHANGED auxVars

\* I::NULL.add(a), for the Nullable implementations
CallAddNull ==
    /\ oret.op = "none"
    /\ oI \in Zeroable
    /\ oret' = [op |-> "add_null", d |-> NULL, r |-> add(oI, NULL, oa)]
    /\ UNCHANGED <<oI, oa, ob>>
    /\ UNCHANGED selfRefVars
    /\ UNCHANGED auxVars

NextOffset == CallSub \/ CallAdd \/ CallAddNull

SpecOffset == InitOffset /\ [][NextOffset]_vars

----------------------------------------------------------------------------
(* Spec: a container embedding a SelfRef and its target, bound, accessed    *)
(* and moved                                                                *)

\* Offset types the SelfRef is instantiated with.
SelfRefTypes == {"i8", "i16", "isize", "i128", "NonZeroI8"}

TargetKinds == {"sized", "slice"}

\* Field offsets inside the container.
FieldOffsets == 0 .. (ContainerSize - 1)

\* isize::MAX + 1: the first address whose reinterpretation as isize is
\* negative.
HALF == Pow2(PtrBits - 1)

\* Addresses the container is placed at: the lowest (1, not null), one at
\* which it lies across HALF, one just above HALF, and the highest at
\* which it still ends inside the address space.
Bases == {1, HALF - 2, HALF, USIZE - ContainerSize}

\* Longest sub-slice a slice pointer is bound to.
MaxLen == 2

\* Lengths of the value found at field offset f: a sub-slice that ends
\* inside the container, or the one sized value.
Lens(k, f) == IF k = "slice" THEN {n \in 1 .. MaxLen : f + n <= ContainerSize} ELSE {0}

\* Offsets and components handed to from_parts.
PartsOffsets(t) ==
    {o \in (0 - 1) .. 1 : min_value(t) <= o /\ o <= max_value(t) /\ (t \in NonZeroTypes => o # 0)}

PartsComps(k) == IF k = "slice" THEN {1} ELSE {0}

NoTarget == [by |-> "none", f |-> 0, n |-> 0, moved |-> FALSE]

\* `self as *mut Self` for the pointer field
SelfAddr == base + pOff

Init ==
    /\ I \in SelfRefTypes
    /\ Tk \in TargetKinds
    /\ base \in Bases
    /\ pOff \in FieldOffsets
    /\ \/ /\ I \in Zeroable
          /\ ptr = null
          /\ res = [op |-> "null"]
       \/ \E o \in PartsOffsets(I), c \in PartsComps(Tk) :
            /\ ptr = from_parts(o, c)
            /\ res = [op |-> "from_parts"]
       \/ \E o \in PartsOffsets(I), c \in PartsComps(Tk), feature \in BOOLEAN :
            /\ add(I, o, SelfAddr) # 0
            /\ ptr = from_parts_with_target(feature, o, c, SomePtr(add(I, o, SelfAddr), c))
            /\ res = [op |-> "from_parts_with_target"]
    /\ tgt = NoTarget
    /\ OffsetIdle
    /\ AuxIdle

\* self.ptr.set(&mut self.<field at f, of length n>)
Set(f, n) ==
    LET out == set(I, ptr, SelfAddr, base + f, n, Tk)
    IN  /\ ptr' = out.p
        /\ tgt' = IF out.r.tag = "Ok"
                  THEN [by |-> "set", f |-> f, n |-> n, moved |-> FALSE]
                  ELSE tgt
        /\ res' = [op |-> "set", r |-> out.r, f |-> f]
        /\ UNCHANGED <<I, Tk, base, pOff>>
        /\ UNCHANGED offsetVars
        /\ UNCHANGED auxVars

\* self.ptr.set_unchecked(&mut self.<field at f, of length n>)
SetUnchecked(f, n) ==
    \E out \in set_unchecked(I, ptr, SelfAddr, base + f, n, Tk) :
        /\ ptr' = out.p
        /\ tgt' = IF ~out.ok THEN tgt
                  ELSE IF sub(I, base + f, SelfAddr).tag = "Ok"
                  THEN [by |-> "set_unchecked", f |-> f, n |-> n, moved |-> FALSE]
                  ELSE NoTarget
        /\ res' = [op |-> "set_unchecked", ok |-> out.ok, f |-> f]
        /\ UNCHANGED <<I, Tk, base, pOff>>
        /\ UNCHANGED offsetVars
        /\ UNCHANGED auxVars

\* as_ref_unchecked / as_mut_unchecked / as_raw_unchecked
AsRefUnchecked ==
    \E o \in debug_assert_ready(ptr, as_raw_unchecked_impl(I, Tk, ptr, SelfAddr)) :
        /\ res' = [op |-> "as_ref_unchecked", out |-> o]
        /\ UNCHANGED <<I, Tk, base, pOff, ptr, tgt>>
        /\ UNCHANGED offsetVars
        /\ UNCHANGED auxVars

\* as_non_null_unchecked
AsNonNullUnchecked ==
    \E o \in debug_assert_ready(ptr, as_non_null_unchecked(I, Tk, ptr, SelfAddr)) :
        /\ res' = [op |-> "as_non_null_unchecked", out |-> o]
        /\ UNCHANGED <<I, Tk, base, pOff, ptr, tgt>>
        /\ UNCHANGED offsetVars
        /\ UNCHANGED auxVars

\* as_non_null / as_ref / as_mut / as_raw, which exist for Nullable I
AsNonNull ==
    /\ I \in Zeroable
    /\ \E o \in as_non_null(I, Tk, ptr, SelfAddr) :
        /\ res' = [op |-> "as_non_null", out |-> o]
        /\ UNCHANGED <<I, Tk, base, pOff, ptr, tgt>>
        /\ UNCHANGED offsetVars
        /\ UNCHANGED auxVars

\* is_ready, offset, components_if_ready, parts_if_ready
Introspect ==
    /\ res' = [op |-> "introspect", ready |-> is_ready(ptr), off |-> offset(ptr),
               isnull |-> IF I \in Zeroable THEN is_null(ptr) ELSE FALSE,
               comps |-> components_if_ready(ptr), parts |-> parts_if_ready(ptr)]
    /\ UNCHANGED <<I, Tk, base, pOff, ptr, tgt>>
    /\ UNCHANGED offsetVars
    /\ UNCHANGED auxVars

\* Addresses a copy of the pointer is placed at (a local variable, a field
\* of another object): outside the container the original lives in.
CopyAddrs ==
    {c \in {1, USIZE - 1} : c < base \/ c >= base + ContainerSize}

\* let mut copy = self.ptr; copy == self.ptr; copy.as_non_null()
CopyAsNonNull(c) ==
    /\ I \in Zeroable
    /\ LET copy == clone(ptr)
       IN  \E o \in as_non_null(I, Tk, copy, c) :
             res' = [op |-> "copy_as_non_null", at |-> c, cp |-> copy,
                     same |-> eq(copy, ptr), out |-> o]
    /\ UNCHANGED <<I, Tk, base, pOff, ptr, tgt>>
    /\ UNCHANGED offsetVars
    /\ UNCHANGED auxVars

\* let mut copy = self.ptr; copy == self.ptr; copy.as_ref_unchecked()
CopyAsRefUnchecked(c) ==
    /\ LET copy == clone(ptr)
       IN  \E o \in debug_assert_ready(copy, as_raw_unchecked_impl(I, Tk, copy, c)) :
             res' = [op |-> "copy_as_ref_unchecked", at |-> c, cp |-> copy,
                     same |-> eq(copy, ptr), out |-> o]
    /\ UNCHANGED <<I, Tk, base, pOff, ptr, tgt>>
    /\ UNCHANGED offsetVars
    /\ UNCHANGED auxVars

\* Pointers self.ptr is compared with.
EqOperands ==
    (IF I \in Zeroable THEN {null} ELSE {})
    \cup {from_parts(o, c) : o \in PartsOffsets(I) \ {0 - 1}, c \in PartsComps(Tk)}
    \cup {from_parts(1, MaxLen)}
    \cup {from_parts_with_target(TRUE, 1, c, SomePtr(1, c)) : c \in PartsComps(Tk)}

\* self.ptr == rhs
Eq(rhs) ==
    /\ res' = [op |-> "eq", rhs |-> rhs, r |-> eq(ptr, rhs)]
    /\ UNCHANGED <<I, Tk, base, pOff, ptr, tgt>>
    /\ UNCHANGED offsetVars
    /\ UNCHANGED auxVars

\* The whole container is moved (a bitwise copy to another address).
Move(nb) ==
    /\ nb # base
    /\ base' = nb
    /\ res' = [op |-> "move"]
    /\ tgt' = IF tgt.by = "none" THEN tgt ELSE [tgt EXCEPT !.moved = TRUE]
    /\ UNCHANGED <<I, Tk, pOff, ptr>>
    /\ UNCHANGED offsetVars
    /\ UNCHANGED auxVars

Next ==
    \/ \E f \in FieldOffsets : \E n \in Lens(Tk, f) : Set(f, n)
    \/ \E f \in FieldOffsets : \E n \in Lens(Tk, f) : SetUnchecked(f, n)
    \/ AsRefUnchecked
    \/ AsNonNullUnchecked
    \/ AsNonNull
    \/ Introspect
    \/ \E c \in CopyAddrs : CopyAsNonNull(c)
    \/ \E c \in CopyAddrs : CopyAsRefUnchecked(c)
    \/ \E rhs \in EqOperands : Eq(rhs)
    \/ \E nb \in Bases : Move(nb)

Spec == Init /\ [][Next]_vars

----------------------------------------------------------------------------
(* Properties of the Offset implementations, checked under SpecOffset *)

\* C2: offset algebra.  For every Offset implementation and every pair of
\* addresses a, b for which sub(a, b) returns Ok(d), add(d, b) is a.
C2_OffsetAlgebra ==
    oret.op = "add" => oret.r = oa

\* C2 witness: a narrow type carried a negative distance back to a.
C2_Witness ==
    /\ oret.op = "add"
    /\ size_of(oI) < PtrBits
    /\ oret.d < 0
    /\ oret.r = oa

\* C4 (as claimed): for a width narrower than the pointer width, sub(a, b)
\* is Err(Conversion) exactly when the full-width signed distance from b to
\* a lies outside [MIN, MAX] of the width, and is Ok(that distance)
\* otherwise; no Ok value differs from the distance.
C4_RangeCheckExact ==
    (oret.op = "sub" /\ oI \in Zeroable /\ size_of(oI) < PtrBits) =>
        LET dist == TrueDistanceOf(oa, ob)
            fits == min_value(oI) <= dist /\ dist <= max_value(oI)
        IN  /\ (oret.r.err = "Conversion") <=> ~fits
            /\ fits => oret.r = Ok(dist)
            /\ oret.r.tag = "Ok" => oret.r.val = dist

\* C5 (as claimed): sub(a, b) is Err(Sub) exactly when the distance
\* between the unsigned addresses a and b does not fit in isize.
C5_SubExactlyWhenTooFar ==
    oret.op = "sub" =>
        ((oret.r.err = "Sub") <=>
            (oa - ob < 0 - Pow2(PtrBits - 1) \/ oa - ob > Pow2(PtrBits - 1) - 1))

C7_SubSelfIsZero ==
    (oret.op = "sub" /\ oa = ob) => oret.r = Ok(0)

\* C8: for every Nullable offset type, add(NULL, base) is base.
C8_AddNullIsIdentity ==
    oret.op = "add_null" => oret.r = oa

\* C8 witness: NULL was added to a non-null base address.
C8_Witness ==
    /\ oret.op = "add_null"
    /\ oa > 0
    /\ oret.d = NULL
    /\ oret.r = oa

----------------------------------------------------------------------------
(* Properties of SelfRef, checked under Spec *)

Accessors == {"as_ref_unchecked", "as_non_null_unchecked", "as_non_null"}

\* C1: round trip under relocation.  A pointer bound with a successful set
\* to a field of its container resolves, on every access, to the address
\* that field has at the container's current location.
C1_RoundTripUnderRelocation ==
    (tgt.by = "set" /\ res.op \in Accessors) =>
        /\ ~res.out.panic
        /\ res.out.some
        /\ res.out.addr = base + tgt.f

\* C1 witness: bound at one address, moved, then accessed at another.
C1_Witness ==
    /\ tgt.by = "set"
    /\ tgt.moved
    /\ tgt.f # pOff
    /\ res.op = "as_ref_unchecked"
    /\ res.out.addr = base + tgt.f

\* C3 (as claimed): a failed set leaves offset, components and state tag as
\* they were, and a target out of the offset width's range is refused with
\* Conversion.
C3_FailedSetLeavesPointer ==
    [][(res'.op = "set" /\ res'.r.tag = "Err") =>
        /\ ptr' = ptr
        /\ (res'.f - pOff < min_value(I) \/ res'.f - pOff > max_value(I))
              => res'.r.err = "Conversion"]_vars

\* The frame half of C3 alone: a failed set changes nothing of the pointer.
FailedSetChangesNothing ==
    [][(res'.op = "set" /\ res'.r.tag = "Err") => ptr' = ptr]_vars

\* C9: the state tag is monotonic.  No step takes a Ready pointer back to
\* Unset.
C9_ReadyIsNeverUndone ==
    [][ptr.st = "Ready" => ptr'.st = "Ready"]_vars

\* C9 witness: a set was refused on a Ready pointer, which is Ready still.
C9_Witness ==
    /\ res.op = "set"
    /\ res.r.tag = "Err"
    /\ ptr.st = "Ready"

\* C10: an Unset pointer holds the sentinel offset and exposes no metadata,
\* and null() is such a pointer.
C10_UnsetHoldsSentinel ==
    /\ ptr.st = "Unset" =>
        /\ offset(ptr) = NULL
        /\ ~is_ready(ptr)
        /\ ~components_if_ready(ptr).some
        /\ ~parts_if_ready(ptr).some
    /\ res.op = "null" => (ptr.st = "Unset" /\ ~is_ready(ptr))

\* C10 witness: a set was refused on an Unset pointer.
C10_Witness ==
    /\ ptr.st = "Unset"
    /\ res.op = "set"
    /\ res.r.tag = "Err"
    /\ offset(ptr) = NULL

----------------------------------------------------------------------------
(* The checked accessors, equality, is_null, copies, slices                 *)

\* The checked accessors' last call: on the pointer in place or on a copy.
CheckedAccess == {"as_non_null", "copy_as_non_null"}

\* Where the pointer the last checked access went through sits.
AccessedAt == IF res.op = "copy_as_non_null" THEN res.at ELSE SelfAddr

C12_EqualityIsStructural ==
    res.op = "eq" =>
        (res.r <=>
            \/ ~is_ready(ptr) /\ ~is_ready(res.rhs)
            \/ /\ is_ready(ptr) /\ is_ready(res.rhs)
               /\ ptr.off = res.rhs.off
               /\ ptr.comp = res.rhs.comp)

\* A Ready pointer with offset 0 compared with an Unset one: not equal.
C12_Witness ==
    /\ res.op = "eq"
    /\ is_ready(ptr) /\ ptr.off = 0
    /\ ~is_ready(res.rhs) /\ res.rhs.off = 0
    /\ ~res.r

\* C13 as stated: for a Nullable offset type, is_null() is true exactly when
\* the pointer is not initialised: is_null() = ~is_ready() in every state.
C13_NullIffNotReady ==
    I \in Zeroable => (is_null(ptr) <=> ~is_ready(ptr))

\* C14: a copy has the offset, components and state of the original and
\* compares equal to it; an access through the copy resolves to (address of
\* the copy) + offset, which is the original's target only when the copy is as
\* far from that target as the original.
C14_CopyIsVerbatim ==
    res.op \in {"copy_as_non_null", "copy_as_ref_unchecked"} =>
        /\ res.cp = ptr
        /\ res.same
        /\ (is_ready(ptr) /\ ~res.out.panic) =>
              /\ res.out.addr = (res.at + ptr.off) % USIZE
              /\ (tgt.by = "set" /\ res.out.addr = base + tgt.f) => res.at = SelfAddr

\* A copy of a bound pointer resolves to its own address plus the offset,
\* which is not where the original's target is.
C14_Witness ==
    /\ res.op = "copy_as_ref_unchecked"
    /\ tgt.by = "set" /\ ~tgt.moved
    /\ res.same
    /\ ~res.out.panic
    /\ res.out.addr = (res.at + ptr.off) % USIZE
    /\ res.out.addr # base + tgt.f

\* C18: binding to the sub-slice that starts at element k and has n elements
\* stores n as the components and (address of element k) - (address of the
\* pointer) as the offset; wherever the container is moved, an access yields
\* the slice that starts at element k and has exactly n elements.
C18_SliceKeepsStartAndLength ==
    (Tk = "slice" /\ tgt.by = "set") =>
        /\ ptr.comp = tgt.n
        /\ ptr.off = (base + tgt.f) - SelfAddr
        /\ (res.op \in Accessors /\ ~res.out.panic) =>
              /\ res.out.addr = base + tgt.f
              /\ res.out.meta = tgt.n

\* A sub-slice shorter than what follows its start, read after a move.
C18_Witness ==
    /\ Tk = "slice" /\ tgt.by = "set" /\ tgt.moved
    /\ tgt.f > 0 /\ tgt.n > 0 /\ tgt.f + tgt.n < ContainerSize
    /\ res.op \in Accessors /\ ~res.out.panic
    /\ res.out.addr = base + tgt.f /\ res.out.meta = tgt.n

----------------------------------------------------------------------------
(* SpecCell: a SelfRefCell built by new, moved, read, written and consumed  *)

\* Offset types the cell is instantiated with: new asks for Nullable.
CellTypes == SelfRefTypes \cap Zeroable

\* Values the cell holds.
Values == {0, 1}

\* What a read finds outside the cell's value field.
Junk == 0 - 1

\* The value a reference to address a reads.
ReadAt(a) == IF a = base + cell.vOff THEN data ELSE Junk

InitCell ==
    /\ I \in CellTypes
    /\ Tk = "sized"
    /\ base \in Bases
    /\ pOff \in FieldOffsets
    /\ \E vf \in FieldOffsets \ {pOff} : cell = [st |-> "none", vOff |-> vf]
    /\ data \in Values
    /\ ptr = null
    /\ tgt = NoTarget
    /\ res = [op |-> "none"]
    /\ other = [st |-> "none"]
    /\ debug_assertions = FALSE
    /\ OffsetIdle

\* SelfRefCell::new(data), the cell being built at `base` and, when new
\* returns it, moved to where the caller keeps it.
CellNew(nb) ==
    /\ cell.st = "none"
    /\ LET n == SelfRefCell_new(I, base, pOff, cell.vOff)
       IN  /\ res' = [op |-> "new", r |-> n.r, at |-> base]
           /\ ptr' = n.ptr
           /\ cell' = [cell EXCEPT !.st = IF n.made THEN "live" ELSE "failed"]
           /\ base' = IF n.made THEN nb ELSE base
    /\ UNCHANGED <<I, Tk, pOff, tgt, data, other, debug_assertions>>
    /\ UNCHANGED offsetVars

\* The cell is moved.
CellMove(nb) ==
    /\ cell.st = "live"
    /\ nb # base
    /\ base' = nb
    /\ res' = [op |-> "move"]
    /\ UNCHANGED <<I, Tk, pOff, ptr, tgt, data, cell, other, debug_assertions>>
    /\ UNCHANGED offsetVars

\* cell.try_get() and a read through the reference
CellTryGet ==
    /\ cell.st = "live"
    /\ \E o \in try_get(I, ptr, base, pOff) :
         res' = [op |-> "try_get", out |-> o, seen |-> IF o.some THEN ReadAt(o.addr) ELSE Junk]
    /\ UNCHANGED <<I, Tk, base, pOff, ptr, tgt, data, cell, other, debug_assertions>>
    /\ UNCHANGED offsetVars

\* *cell.get()
CellGet ==
    /\ cell.st = "live"
    /\ \E o \in get(I, ptr, base, pOff) :
         res' = [op |-> "get", out |-> o, seen |-> IF o.some THEN ReadAt(o.addr) ELSE Junk]
    /\ UNCHANGED <<I, Tk, base, pOff, ptr, tgt, data, cell, other, debug_assertions>>
    /\ UNCHANGED offsetVars

\* if let Some(r) = cell.try_get_mut() { *r = v }
CellTryGetMut(v) ==
    /\ cell.st = "live"
    /\ \E o \in try_get_mut(I, ptr, base, pOff) :
         /\ res' = [op |-> "try_get_mut", out |-> o, seen |-> v]
         /\ data' = IF o.some /\ o.addr = base + cell.vOff THEN v ELSE data
    /\ UNCHANGED <<I, Tk, base, pOff, ptr, tgt, cell, other, debug_assertions>>
    /\ UNCHANGED offsetVars

\* *cell.get_mut() = v
CellGetMut(v) ==
    /\ cell.st = "live"
    /\ \E o \in get_mut(I, ptr, base, pOff) :
         /\ res' = [op |-> "get_mut", out |-> o, seen |-> v]
         /\ data' = IF o.some /\ o.addr = base + cell.vOff THEN v ELSE data
    /\ UNCHANGED <<I, Tk, base, pOff, ptr, tgt, cell, other, debug_assertions>>
    /\ UNCHANGED offsetVars

\* cell.into_inner()
CellIntoInner ==
    /\ cell.st = "live"
    /\ cell' = [cell EXCEPT !.st = "consumed"]
    /\ res' = [op |-> "into_inner", out |-> Returned(nn_to_ptr(NonePtr)), seen |-> data]
    /\ UNCHANGED <<I, Tk, base, pOff, ptr, tgt, data, other, debug_assertions>>
    /\ UNCHANGED offsetVars

NextCell ==
    \/ \E nb \in Bases : CellNew(nb)
    \/ \E nb \in Bases : CellMove(nb)
    \/ CellTryGet
    \/ CellGet
    \/ \E v \in Values : CellTryGetMut(v)
    \/ \E v \in Values : CellGetMut(v)
    \/ CellIntoInner

SpecCell == InitCell /\ [][NextCell]_vars

----------------------------------------------------------------------------
(* Properties of SelfRefCell, checked under SpecCell *)

\* Distance from the cell's pointer field to its value field where new ran.
NewDistance == sub(I, res.at + cell.vOff, res.at + pOff)

\* C15: new fails atomically.  It returns the error set returns for the
\* distance between the cell's pointer field and its value field, and then
\* no cell comes out; it returns Ok only when that bind succeeded.
C15_NewFailsAtomically ==
    res.op = "new" =>
        /\ NewDistance.tag = "Err" => (res.r = NewDistance /\ cell.st = "failed")
        /\ NewDistance.tag = "Ok" =>
              (res.r.tag = "Ok" /\ cell.st = "live" /\ is_ready(ptr)
                 /\ ptr.off = NewDistance.val)
        /\ res.r.tag = "Ok" <=> NewDistance.tag = "Ok"

\* new refused a value field out of the offset type's reach.
C15_Witness ==
    /\ res.op = "new"
    /\ res.r.tag = "Err" /\ res.r.err = "Conversion"
    /\ cell.st = "failed"

\* C16: for a cell built by new(v), get and get_mut resolve to the address
\* of the cell's own value field where the cell is now, whatever moves it
\* made; they observe v as last written through get_mut, and into_inner
\* returns that value.
C16_CellAccessFollowsTheCell ==
    /\ res.op \in {"get", "try_get", "get_mut", "try_get_mut"} =>
         (~res.out.panic =>
            /\ res.out.some
            /\ res.out.addr = base + cell.vOff
            /\ res.seen = data)
    /\ res.op = "into_inner" => res.seen = data

\* The cell read where a move took it, after a write through get_mut.
C16_Witness ==
    /\ res.op = "get"
    /\ ~res.out.panic
    /\ res.out.addr = base + cell.vOff
    /\ base = HALF
    /\ res.seen = data

\* C17: every cell built by new and reached by moves, get and get_mut holds
\* a Ready pointer: try_get and try_get_mut never return None, get and
\* get_mut never panic.
C17_CellIsAlwaysReady ==
    /\ cell.st = "live" => is_ready(ptr)
    /\ res.op \in {"get", "try_get", "get_mut", "try_get_mut"} =>
         (~res.out.panic /\ res.out.some)

\* try_get_mut found the value of a moved cell.
C17_Witness ==
    /\ res.op = "try_get_mut"
    /\ res.out.some
    /\ cell.st = "live" /\ is_ready(ptr)

SameSide(a, b) == (a < HALF) <=> (b < HALF)

----------------------------------------------------------------------------
(* SpecSwap: two bound containers of one type whose contents are exchanged  *)

\* Where the two containers s and x stand: apart from each other.
SwapPlaces ==
    {<<1, HALF>>, <<HALF - 2, USIZE - ContainerSize>>,
     <<USIZE - ContainerSize, 1>>, <<HALF, HALF - 2 - ContainerSize>>}

\* SelfRefTest::new(t, f): a container at address `at` whose pointer is
\* bound to the n elements that f(&mut t) finds at field offset fld; unwrap
\* panics when set fails, and then there is no container.
SelfRefTest_new(t, k, at, fld, n) ==
    LET this == set(t, null, at + pOff, at + fld, n, k)
    IN  [made |-> this.r.tag = "Ok", t_ref |-> this.p]

\* An exchange that leaves the data where it was.
mem_swap_keeps_data(a, b) ==
    [a |-> [b EXCEPT !.data = a.data], b |-> [a EXCEPT !.data = b.data]]

\* std::mem::swap of the contents of two containers
mem_swap(a, b) == [a |-> b, b |-> a]

\* What a read at address a finds: the data of the container a lies in.
ReadIn(a) ==
    IF base <= a /\ a < base + ContainerSize THEN data
    ELSE IF other.base <= a /\ a < other.base + ContainerSize THEN other.data
    ELSE "junk"

InitSwap ==
    /\ I \in CellTypes
    /\ Tk \in TargetKinds
    /\ pOff \in FieldOffsets
    /\ \E pl \in SwapPlaces, fs \in FieldOffsets, fx \in FieldOffsets :
         \E ns \in Lens(Tk, fs), nx \in Lens(Tk, fx) :
            LET s == SelfRefTest_new(I, Tk, pl[1], fs, ns)
                x == SelfRefTest_new(I, Tk, pl[2], fx, nx)
            IN  /\ s.made /\ x.made
                /\ base = pl[1]
                /\ ptr = s.t_ref
                /\ tgt = [by |-> "set", f |-> fs, n |-> ns, moved |-> FALSE]
                /\ data = "Hello World"
                /\ other = [st |-> "live", base |-> pl[2], ptr |-> x.t_ref,
                            tgt |-> [by |-> "set", f |-> fx, n |-> nx, moved |-> FALSE],
                            data |-> "Killer Move", swapped |-> FALSE]
    /\ cell = [st |-> "none", vOff |-> 0]
    /\ debug_assertions = FALSE
    /\ res = [op |-> "none"]
    /\ OffsetIdle

\* std::mem::swap(&mut s, &mut x)
Swap ==
    /\ LET sw == mem_swap([ptr |-> ptr, tgt |-> tgt, data |-> data],
                          [ptr |-> other.ptr, tgt |-> other.tgt, data |-> other.data])
       IN  /\ ptr' = sw.a.ptr
           /\ tgt' = sw.a.tgt
           /\ data' = sw.a.data
           /\ other' = [other EXCEPT !.ptr = sw.b.ptr, !.tgt = sw.b.tgt,
                                      !.data = sw.b.data, !.swapped = ~other.swapped]
    /\ res' = [op |-> "swap"]
    /\ UNCHANGED <<I, Tk, base, pOff, cell, debug_assertions>>
    /\ UNCHANGED offsetVars

\* *s.t_ref()
SwapAccessS ==
    /\ \E o \in debug_assert_ready(ptr, as_raw_unchecked_impl(I, Tk, ptr, base + pOff)) :
         res' = [op |-> "s.t_ref", out |-> o,
                 seen |-> IF o.panic THEN "junk" ELSE ReadIn(o.addr)]
    /\ UNCHANGED <<I, Tk, base, pOff, ptr, tgt, data, cell, other, debug_assertions>>
    /\ UNCHANGED offsetVars

\* *x.t_ref()
SwapAccessX ==
    /\ \E o \in debug_assert_ready(other.ptr,
                    as_raw_unchecked_impl(I, Tk, other.ptr, other.base + pOff)) :
         res' = [op |-> "x.t_ref", out |-> o,
                 seen |-> IF o.panic THEN "junk" ELSE ReadIn(o.addr)]
    /\ UNCHANGED <<I, Tk, base, pOff, ptr, tgt, data, cell, other, debug_assertions>>
    /\ UNCHANGED offsetVars

\* s.t_ref.set(<the field s.t_ref is bound to>): s binds again where it is
SwapRebindS ==
    /\ LET out == set(I, ptr, base + pOff, base + tgt.f, tgt.n, Tk)
       IN  /\ ptr' = out.p
           /\ res' = [op |-> "rebind", r |-> out.r, same |-> eq(out.p, ptr)]
    /\ UNCHANGED <<I, Tk, base, pOff, tgt, data, cell, other, debug_assertions>>
    /\ UNCHANGED offsetVars

NextSwap == Swap \/ SwapAccessS \/ SwapAccessX \/ SwapRebindS

SpecSwap == InitSwap /\ [][NextSwap]_vars

\* The data each container holds once the contents were exchanged an odd
\* number of times, and otherwise.
HeldByS == IF other.swapped THEN "Killer Move" ELSE "Hello World"

HeldByX == IF other.swapped THEN "Hello World" ELSE "Killer Move"

\* C19: after the full contents of two bound containers of one type were
\* exchanged, the pointer in each container resolves to the target field of
\* that same container, which now holds the data the other one held;
\* neither pointer resolves into the other container.
C19_SwapKeepsPointersAtHome ==
    /\ data = HeldByS /\ other.data = HeldByX
    /\ res.op = "s.t_ref" =>
         /\ ~res.out.panic
         /\ res.out.addr = base + tgt.f
         /\ res.out.meta = decompose(Tk, tgt.n)
         /\ res.seen = HeldByS
         /\ ~(other.base <= res.out.addr /\ res.out.addr < other.base + ContainerSize)
    /\ res.op = "x.t_ref" =>
         /\ ~res.out.panic
         /\ res.out.addr = other.base + other.tgt.f
         /\ res.out.meta = decompose(Tk, other.tgt.n)
         /\ res.seen = HeldByX
         /\ ~(base <= res.out.addr /\ res.out.addr < base + ContainerSize)

\* After the exchange s reads "Killer Move" through its pointer, at its own
\* field, the two pointers being bound to different fields.
C19_Witness ==
    /\ other.swapped
    /\ res.op = "s.t_ref"
    /\ res.seen = "Killer Move"
    /\ res.out.addr = base + tgt.f
    /\ tgt.f # other.tgt.f

----------------------------------------------------------------------------
(* set and set_unchecked, checked under Spec *)

\* C21 as stated: when the containing structure is no larger than I::MAX,
\* set succeeds for every placement of the pointer field and the target
\* inside the structure.
C21_SizingRule ==
    (res.op = "set" /\ ContainerSize <= max_value(I)) => res.r.tag = "Ok"

\* C24: when set returns Ok the pointer is Ready, offset() is (address of
\* the target) - (address of the pointer) and components_if_ready() is
\* Some(decompose(target)).
C24_SuccessfulSetPostcondition ==
    (res.op = "set" /\ res.r.tag = "Ok") =>
        /\ is_ready(ptr)
        /\ tgt.by = "set" /\ tgt.f = res.f
        /\ offset(ptr) = (base + res.f) - SelfAddr
        /\ components_if_ready(ptr) = Some(IF Tk = "slice" THEN tgt.n ELSE 0)

\* A target below the pointer: the offset is negative.
C24_Witness ==
    /\ res.op = "set" /\ res.r.tag = "Ok"
    /\ is_ready(ptr)
    /\ offset(ptr) = (base + res.f) - SelfAddr
    /\ offset(ptr) < 0

\* The distances the offset type I can hold.
Representable(t, d) ==
    /\ min_value(t) <= d /\ d <= max_value(t)
    /\ t \in NonZeroTypes => d # 0

\* C27 as stated: set_unchecked always leaves the pointer Ready, and when
\* its precondition holds (the distance is representable in I; the target
\* is never null here) it leaves the pointer as a successful set on the
\* same target does.
C27_SetUncheckedAsSet ==
    res.op = "set_unchecked" =>
        /\ is_ready(ptr)
        /\ Representable(I, res.f - pOff) =>
              \E n \in Lens(Tk, res.f) :
                  LET s == set(I, ptr, SelfAddr, base + res.f, n, Tk)
                  IN  s.r.tag = "Ok" /\ ptr = s.p

\* The precondition half of C27 alone, away from the sign boundary: with
\* pointer and target on the same side of isize::MAX + 1 and the distance
\* representable, set_unchecked leaves what set leaves.
SetUncheckedAsSetOnOneSide ==
    (res.op = "set_unchecked" /\ Representable(I, res.f - pOff)
        /\ SameSide(base + res.f, SelfAddr)) =>
        /\ is_ready(ptr)
        /\ \E n \in Lens(Tk, res.f) :
               LET s == set(I, ptr, SelfAddr, base + res.f, n, Tk)
               IN  s.r.tag = "Ok" /\ ptr = s.p

\* The sizing rule away from the sign boundary, for the Nullable widths.
SizingRuleOnOneSide ==
    (res.op = "set" /\ ContainerSize <= max_value(I) /\ I \in Zeroable
        /\ SameSide(base + res.f, SelfAddr)) => res.r.tag = "Ok"

\* C30: the stored representation does not depend on where the container
\* is.  Two containers of one layout bound the same way at different
\* addresses hold the same offset and components and compare equal; a
\* container whose contents came from elsewhere and is bound again where it
\* is now gets a pointer equal to the one that came along.
C30_PositionIndependence ==
    /\ (tgt.f = other.tgt.f /\ tgt.n = other.tgt.n) =>
          /\ ptr.off = other.ptr.off
          /\ ptr.comp = other.ptr.comp
          /\ eq(ptr, other.ptr)
    /\ res.op = "rebind" => res.same

\* s holds what was bound at x's address, was bound again, and nothing
\* changed.
C30_Witness ==
    /\ other.swapped
    /\ res.op = "rebind" /\ res.r.tag = "Ok" /\ res.same
    /\ tgt.f = other.tgt.f /\ tgt.n = other.tgt.n
    /\ eq(ptr, other.ptr)
    /\ base # other.base

----------------------------------------------------------------------------
(* SpecOwner: a container whose owner binds, rebinds, moves and writes it   *)
(* and reads through every accessor, in a build with or without debug       *)
(* assertions                                                               *)

OwnerTypes == {"i8", "isize"}

\* Addresses the container is placed at: low, across HALF, at HALF.
OwnerBases == {1, HALF - 2, HALF}

\* Accessors that take the pointer's own address, and those given a base.
SelfRelative == {"as_ref_unchecked", "as_non_null_unchecked", "as_non_null"}

BaseRelative == {"get_ref_from_base_unchecked", "get_mut_from_base_unchecked"}

\* Bases handed to the base-relative accessors: the container's start (what
\* selfref_accessors! passes), an address inside it, one outside it.
SuppliedBases == {base, base + 1, 0}

\* The outcomes of accessor `kind`; b is the base a base-relative one is given.
access(kind, b) ==
    IF kind = "as_ref_unchecked"
    THEN debug_assert_ready(ptr, as_raw_unchecked_impl(I, Tk, ptr, SelfAddr))
    ELSE IF kind = "as_non_null_unchecked"
    THEN debug_assert_ready(ptr, as_non_null_unchecked(I, Tk, ptr, SelfAddr))
    ELSE IF kind = "as_non_null"
    THEN as_non_null(I, Tk, ptr, SelfAddr)
    ELSE IF kind = "get_ref_from_base_unchecked"
    THEN get_ref_from_base_unchecked(I, Tk, ptr, SelfAddr, b)
    ELSE get_mut_from_base_unchecked(I, Tk, ptr, SelfAddr, b)

\* The value a reference to address a reads: that of the bound field where
\* the container is now, anything else elsewhere.
OwnerRead(a) == IF tgt.by = "set" /\ a = base + tgt.f THEN data ELSE Junk

InitOwner ==
    /\ I \in OwnerTypes
    /\ Tk \in TargetKinds
    /\ base \in OwnerBases
    /\ pOff \in FieldOffsets
    /\ debug_assertions \in BOOLEAN
    /\ \/ ptr = null
       \/ \E o \in PartsOffsets(I) \ {0}, c \in PartsComps(Tk) :
            /\ add(I, o, SelfAddr) # 0
            /\ ptr = from_parts_with_target(TRUE, o, c, SomePtr(add(I, o, SelfAddr), c))
    /\ tgt = NoTarget
    /\ res = [op |-> "none"]
    /\ data = 0
    /\ cell = [st |-> "none", vOff |-> 0]
    /\ other = [st |-> "none"]
    /\ OffsetIdle

\* self.ptr.set(&mut self.<field at f, of length n>)
OwnerSet(f, n) ==
    LET out == set(I, ptr, SelfAddr, base + f, n, Tk)
    IN  /\ ptr' = out.p
        /\ tgt' = IF out.r.tag = "Ok"
                  THEN [by |-> "set", f |-> f, n |-> n, moved |-> FALSE]
                  ELSE tgt
        /\ res' = [op |-> "set", r |-> out.r, f |-> f, was |-> is_ready(ptr)]
        /\ UNCHANGED <<I, Tk, base, pOff, data, cell, other, debug_assertions>>
        /\ UNCHANGED offsetVars

\* The whole container is moved.
OwnerMove(nb) ==
    /\ nb # base
    /\ base' = nb
    /\ res' = [op |-> "move"]
    /\ tgt' = IF tgt.by = "none" THEN tgt ELSE [tgt EXCEPT !.moved = TRUE]
    /\ UNCHANGED <<I, Tk, pOff, ptr, data, cell, other, debug_assertions>>
    /\ UNCHANGED offsetVars

\* *self.t_mut() = v: the owner writes the target field
OwnerWrite(v) ==
    /\ v # data
    /\ data' = v
    /\ res' = [op |-> "write"]
    /\ UNCHANGED <<I, Tk, base, pOff, ptr, tgt, cell, other, debug_assertions>>
    /\ UNCHANGED offsetVars

\* An accessor that takes the pointer's own address, and a read through
\* what it returns.
OwnerAccess_takes(kind) ==
    /\ kind = "as_non_null" => I \in Zeroable
    /\ \E o \in in_build(debug_assertions, access(kind, base)) :
         res' = [op |-> kind, b |-> base, out |-> o,
                 seen |-> IF o.panic \/ ~o.some THEN Junk ELSE OwnerRead(o.addr)]
    /\ ptr' = [ptr EXCEPT !.st = "Unset"]
    /\ UNCHANGED <<I, Tk, base, pOff, tgt, data, cell, other, debug_assertions>>
    /\ UNCHANGED offsetVars

OwnerAccess(kind) ==
    /\ kind = "as_non_null" => I \in Zeroable
    /\ \E o \in in_build(debug_assertions, access(kind, base)) :
         res' = [op |-> kind, b |-> base, out |-> o,
                 seen |-> IF o.panic \/ ~o.some THEN Junk ELSE OwnerRead(o.addr)]
    /\ UNCHANGED <<I, Tk, base, pOff, ptr, tgt, data, cell, other, debug_assertions>>
    /\ UNCHANGED offsetVars

\* A base-relative accessor given base b, and a read through what it
\* returns.  offset_from is undefined for a base outside the object the
\* pointer lies in: an execution that checks it stops, the others compute
\* the difference of the two addresses.
OwnerGetFromBase(kind, b) ==
    /\ \E o \in in_build(debug_assertions, access(kind, b))
                 \cup (IF b < base \/ b > base + ContainerSize THEN {Panicked} ELSE {}) :
         res' = [op |-> kind, b |-> b, out |-> o,
                 seen |-> IF o.panic \/ ~o.some THEN Junk ELSE OwnerRead(o.addr)]
    /\ UNCHANGED <<I, Tk, base, pOff, ptr, tgt, data, cell, other, debug_assertions>>
    /\ UNCHANGED offsetVars

\* let (o, c) = self.ptr.parts_if_ready().unwrap(); let q = from_parts(o, c);
\* q == self.ptr; q put where self.ptr is and read with as_raw_unchecked
OwnerFromParts ==
    /\ parts_if_ready(ptr).some
    /\ LET parts == parts_if_ready(ptr)
           q == from_parts(parts.off, parts.comp)
       IN  \E o \in in_build(debug_assertions, as_raw_unchecked_impl(I, Tk, q, SelfAddr)) :
             res' = [op |-> "from_parts", q |-> q, parts |-> parts_if_ready(q),
                     same |-> eq(q, ptr), out |-> o]
    /\ UNCHANGED <<I, Tk, base, pOff, ptr, tgt, data, cell, other, debug_assertions>>
    /\ UNCHANGED offsetVars

\* is_ready, is_null, offset, components_if_ready, parts_if_ready, ==
OwnerIntrospect ==
    /\ res' = [op |-> "introspect", ready |-> is_ready(ptr), off |-> offset(ptr),
               isnull |-> IF I \in Zeroable THEN is_null(ptr) ELSE FALSE,
               comps |-> components_if_ready(ptr), parts |-> parts_if_ready(ptr),
               same |-> eq(ptr, clone(ptr))]
    /\ UNCHANGED <<I, Tk, base, pOff, ptr, tgt, data, cell, other, debug_assertions>>
    /\ UNCHANGED offsetVars

NextOwner ==
    \/ \E f \in FieldOffsets : \E n \in Lens(Tk, f) : OwnerSet(f, n)
    \/ \E nb \in OwnerBases : OwnerMove(nb)
    \/ \E v \in Values : OwnerWrite(v)
    \/ \E kind \in SelfRelative : OwnerAccess(kind)
    \/ \E kind \in BaseRelative : \E b \in SuppliedBases : OwnerGetFromBase(kind, b)
    \/ OwnerFromParts
    \/ OwnerIntrospect

SpecOwner == InitOwner /\ [][NextOwner]_vars

----------------------------------------------------------------------------
(* Properties checked under SpecOwner *)

AccessOps == SelfRelative \cup BaseRelative

\* The address an access recomputes: the pointer's own plus the offset.
Recomputed == (SelfAddr + ptr.off) % USIZE

\* The debug hook is on and the pointer carries a recorded target that is
\* not where an access would resolve to.
GuardWouldTrip ==
    /\ debug_assertions
    /\ is_ready(ptr)
    /\ ptr.guard.some
    /\ ptr.guard.addr # Recomputed

\* C22 as stated: with the debug hook enabled, every access to a Ready
\* pointer that carries a recorded target asserts that the recomputed
\* address is the recorded one, whichever accessor is used: checked,
\* unchecked or base-relative.
C22_EveryAccessAssertsTheTarget ==
    (res.op \in AccessOps /\ GuardWouldTrip) => res.out.panic

\* The accessors that do call guard_assert_target: all but the three that
\* return as_raw_unchecked_impl.
GuardedAccessorsAssert ==
    (res.op \in AccessOps \ {"as_ref_unchecked"} /\ GuardWouldTrip) => res.out.panic

\* C23: for a Ready pointer the base-relative accessors resolve to (address
\* of the pointer field) + offset, as as_raw_unchecked does, whatever base
\* they are given.
C23_BaseRelativeIgnoresBase ==
    (res.op \in BaseRelative /\ is_ready(ptr) /\ ~res.out.panic) =>
        /\ res.out.addr = Recomputed
        /\ \E o \in as_raw_unchecked_impl(I, Tk, ptr, SelfAddr) :
              o.addr = res.out.addr /\ o.meta = res.out.meta

\* A base that is not the container's start, and still the bound field.
C23_Witness ==
    /\ res.op = "get_ref_from_base_unchecked"
    /\ res.b # base
    /\ tgt.by = "set" /\ tgt.moved
    /\ ~res.out.panic
    /\ res.out.addr = base + tgt.f
    /\ res.out.addr # (res.b + ptr.off) % USIZE

\* C25: a successful set on a pointer that is already Ready replaces offset
\* and components by those of the new target and leaves nothing of the
\* previous binding, its recorded debug target included; accesses from then
\* on resolve to the new target.
C25_RebindingOverwrites ==
    /\ (res.op = "set" /\ res.was /\ res.r.tag = "Ok") =>
          /\ ptr = from_parts((base + res.f) - SelfAddr, decompose(Tk, tgt.n))
          /\ tgt.f = res.f
    /\ (res.op \in AccessOps /\ tgt.by = "set" /\ ~res.out.panic) =>
          /\ res.out.addr = base + tgt.f
          /\ res.out.meta = decompose(Tk, tgt.n)

\* A pointer that was Ready has just been bound again.
C25_Witness ==
    /\ res.op = "set" /\ res.was /\ res.r.tag = "Ok"
    /\ ptr.off = res.f - pOff
    /\ ptr.off # 0

\* C26: from_parts(o, c) is Ready with parts_if_ready() = Some((o, c)); made
\* from the parts of a Ready pointer p it is equal to p and, put where p
\* is, resolves to the address p resolves to.
C26_PartsRoundTrip ==
    res.op = "from_parts" =>
        /\ is_ready(res.q)
        /\ res.parts = [some |-> TRUE, off |-> ptr.off, comp |-> ptr.comp]
        /\ res.same
        /\ ~res.out.panic
        /\ res.out.addr = Recomputed
        /\ \E o \in as_raw_unchecked_impl(I, Tk, ptr, SelfAddr) :
              o.addr = res.out.addr /\ o.meta = res.out.meta

\* The parts of a pointer bound to a sub-slice, put together again.
C26_Witness ==
    /\ res.op = "from_parts"
    /\ Tk = "slice" /\ tgt.by = "set" /\ tgt.n > 1
    /\ res.same
    /\ res.parts.comp = tgt.n
    /\ res.out.addr = base + tgt.f

\* C28: an access sees the target as it is now: after the owner wrote the
\* target field, the next read through the bound pointer returns what was
\* written.
C28_AccessSeesTheLiveTarget ==
    (res.op \in AccessOps /\ tgt.by = "set" /\ ~res.out.panic) =>
        (res.out.some /\ res.seen = data)

\* The value written by the owner, read through the pointer after a move.
C28_Witness ==
    /\ res.op = "as_ref_unchecked"
    /\ tgt.by = "set" /\ tgt.moved
    /\ data = 1
    /\ res.seen = 1

\* C29: is_ready, is_null, offset, components_if_ready, parts_if_ready,
\* equality and every checked, unchecked and base-relative access leave
\* offset, components and state tag as they are: only set changes them.
C29_AccessorsAreReadOnly ==
    [][res'.op # "set" => ptr' = ptr]_vars

\* A bound pointer, still bound after a checked access.
C29_Witness ==
    /\ res.op = "as_non_null"
    /\ res.out.some
    /\ is_ready(ptr) /\ tgt.by = "set"

============================================================================
